---- MODULE Spec2Model ----
(***************************************************************************)
(* Model of the fuel-proving-games-sp1 harness: GameConfig, GameProver,    *)
(* GameExecutor, ProvingMode, the two game configurations and the          *)
(* decompression-game command line.  The SP1 backend (setup / execute /    *)
(* prove / verify), the guest programs, the ABI codec and the file system  *)
(* are the environment the harness calls into; they are modelled as far    *)
(* as the harness observes them.                                           *)
(***************************************************************************)
EXTENDS Integers, Sequences, FiniteSets, TLC

\* ------------------------------------------------------------------ bounds

\* Number of harness calls (prove, execute, verify, export, CLI run) a run makes.
MaxCalls == 3

\* ------------------------------------------------------- values and results

None == [tag |-> "None"]
Ok(v) == [tag |-> "Ok", val |-> v]
Err(kind, msg) == [tag |-> "Err", kind |-> kind, msg |-> msg]
Panic(msg) == [tag |-> "Panic", msg |-> msg]
Unit == [unit |-> TRUE]

IsOk(r) == r.tag = "Ok"
IsErr(r) == r.tag = "Err"
IsPanic(r) == r.tag = "Panic"

\* ------------------------------------------------------------ GameConfig

Games == {"BlockExecutionGame", "DecompressionGame"}

\* GameConfig::NAME, as the characters of the string constant.
NAME(game) ==
    IF game = "BlockExecutionGame"
    THEN <<"b","l","o","c","k","_","e","x","e","c","u","t","i","o","n">>
    ELSE <<"d","e","c","o","m","p","r","e","s","s","i","o","n">>

\* GameConfig::elf(): the compiled guest program, named by its include_elf! target.
elf(game) ==
    IF game = "BlockExecutionGame"
    THEN "fuel-block-execution-game-sp1"
    ELSE "fuel-decompression-game-sp1"

Elfs == {elf(g) : g \in Games}

\* The fixture catalogue is external; two fixtures per game stand for it.
Fixtures == {"fixture_a", "fixture_b"}

\* GameConfig::get_fixture_input: Fixture::get_input_for_fixture(fixture).
\* The catalogue's bytes are opaque; each fixture has its own well-formed input.
get_fixture_input(game, fixture) ==
    IF game = "BlockExecutionGame"
    THEN (IF fixture = "fixture_a" THEN <<7, 1>> ELSE <<9, 2>>)
    ELSE (IF fixture = "fixture_a" THEN <<3, 5>> ELSE <<4, 8>>)

\* Raw inputs a caller may pass: a fixture's input and a truncated one.
TruncatedInput == <<7>>
RawInputs(game) == {get_fixture_input(game, "fixture_a"), TruncatedInput}

\* ------------------------------------------------------------ ProvingMode

ProvingModes == {"Plonk", "Groth16", "Core"}

\* #[default] Core
DefaultProvingMode == "Core"

\* The CLI's own ProvingMode (clap::ValueEnum renders the variants lowercase).
CliModes == {"plonk", "groth16", "core"}

\* impl From<ProvingMode> for fuel_proving_games_sp1::common::ProvingMode
CliModeInto(value) ==
    CASE value = "plonk" -> "Plonk"
      [] value = "groth16" -> "Groth16"
      [] value = "core" -> "Core"

\* The match on mode in GameProver::prove: which wrapping is requested of the
\* backend's proof builder (none = the builder as returned by prove(&pk, &stdin)).
ConfiguredKindBad(mode) ==
    CASE mode = "Core" -> "core"
      [] mode = "Groth16" -> "plonk"
      [] mode = "Plonk" -> "plonk"

ConfiguredKind(mode) ==
    CASE mode = "Core" -> "core"
      [] mode = "Groth16" -> "groth16"
      [] mode = "Plonk" -> "plonk"

\* ------------------------------------------------------------- byte helpers

\* Width in bytes of one ABI word (uint256).
WordLen == 32

RECURSIVE BeValueUpTo(_, _, _)
\* The unsigned integer the big-endian bytes[from..to] denote.
BeValueUpTo(bytes, from, to) ==
    IF to < from THEN 0
    ELSE BeValueUpTo(bytes, from, to - 1) * 256 + bytes[to]

\* n zero bytes, for every n up to a word.
ZeroBytes == [n \in 0..WordLen |-> [i \in 1..n |-> 0]]

RECURSIVE BeBytes(_, _)
\* The n big-endian bytes of v, most significant first.
BeBytes(v, n) ==
    IF n = 0 \/ v = 0 THEN ZeroBytes[n]
    ELSE Append(BeBytes(v \div 256, n - 1), v % 256)

\* U256::to_be_bytes: the 32 big-endian bytes of v.
to_be_bytes(v) == BeBytes(v, WordLen)

HexDigits == <<"0","1","2","3","4","5","6","7","8","9","a","b","c","d","e","f">>

\* The two lowercase hex digits of every byte value.
HexOfByte == [b \in 0..255 |-> <<HexDigits[(b \div 16) + 1], HexDigits[(b % 16) + 1]>>]

\* hex::encode: two lowercase hex digits per byte.
HexEncode(bytes) ==
    [i \in 1..(2 * Len(bytes)) |-> HexOfByte[bytes[(i + 1) \div 2]][2 - (i % 2)]]

\* format!("0x{}", ...)
Hex0x(bytes) == <<"0", "x">> \o HexEncode(bytes)

UpperChars == <<"A","B","C","D","E","F","G","H","I","J","K","L","M",
                "N","O","P","Q","R","S","T","U","V","W","X","Y","Z">>
LowerChars == <<"a","b","c","d","e","f","g","h","i","j","k","l","m",
                "n","o","p","q","r","s","t","u","v","w","x","y","z">>

\* str::to_lowercase, character by character.
to_lowercase(s) ==
    [i \in 1..Len(s) |->
        IF \E k \in 1..Len(UpperChars) : UpperChars[k] = s[i]
        THEN LowerChars[CHOOSE k \in 1..Len(UpperChars) : UpperChars[k] = s[i]]
        ELSE s[i]]

\* --------------------------------------------------------- guest programs

\* Encoding of PublicValuesStruct (two uint256 fields): one 32-byte word each.
abi_encode(fields) == to_be_bytes(fields[1]) \o to_be_bytes(fields[2])

\* The guest program of a game, run by the backend on a staged input channel.
\* It reads one buffer from the channel and traps when there is none or when
\* the buffer is not a complete input; otherwise it commits its public values
\* (decompression: first and last block height; block execution: input hash
\* and block id) and the run is measured.
ProgramRun(prog, stdin) ==
    IF stdin = <<>> THEN Err("backend", "guest: read from empty input stream")
    ELSE IF Len(stdin[1]) < 2 THEN Err("backend", "guest: invalid input encoding")
    ELSE LET input == stdin[1]
             fields == IF prog = elf("DecompressionGame")
                       THEN <<input[1], input[2]>>
                       ELSE <<input[1] * 256 + input[2], input[2]>>
         IN Ok([public_values |-> abi_encode(fields),
                report |-> [total_instruction_count |-> 1000 * input[1] + input[2],
                            total_syscall_count |-> input[1],
                            touched_memory_addresses |-> 10 * input[2]]])

\* --------------------------------------------------------------- backend

\* Conditions of the backend installation a process runs against.
BackendFaults == {"none", "prover_unavailable", "verifier_mismatch"}

\* EnvProver::setup(elf): the key pair of a program.  gen is the ordinal of the
\* setup call that derived the pair; the backend's verifier does not read it.
BackendSetup(prog, gen) ==
    [pk |-> [prog |-> prog, gen |-> gen], vk |-> [prog |-> prog, gen |-> gen]]

\* EnvProver::execute(elf, &stdin).run()
BackendExecute(prog, stdin) ==
    LET run == ProgramRun(prog, stdin)
    IN IF IsOk(run) THEN Ok(run.val.report) ELSE run

\* EnvProver::prove(&pk, &stdin)[.groth16() | .plonk()].run()
BackendProve(pk, stdin, kind, fault) ==
    IF fault = "prover_unavailable"
    THEN Err("backend", "prover: not available")
    ELSE LET run == ProgramRun(pk.prog, stdin)
         IN IF IsOk(run)
            THEN Ok([prog |-> pk.prog, kind |-> kind, sound |-> TRUE,
                     public_values |-> run.val.public_values,
                     raw |-> <<Len(kind)>> \o stdin[1]])
            ELSE run

\* EnvProver::verify(proof, vk)
BackendVerify(proof, vk, fault) ==
    IF fault = "verifier_mismatch"
    THEN Err("backend", "verifier: version mismatch")
    ELSE IF proof.sound /\ proof.prog = vk.prog
    THEN Ok(Unit)
    ELSE Err("backend", "verifier: invalid proof")

\* SP1ProofWithPublicValues::bytes(): defined for the two on-chain kinds only.
ProofBytes(proof) ==
    IF proof.kind \in {"groth16", "plonk"} THEN Ok(proof.raw)
    ELSE Panic("proof kind is not supported for onchain verification")

\* HashableKey::bytes32(): the 0x-prefixed hex digest of the verifying key.
bytes32(vk) ==
    Hex0x(to_be_bytes(IF vk.prog = elf("DecompressionGame") THEN 48879 ELSE 51966))

\* ------------------------------------------------------------- ABI codec

\* SolType::abi_decode(bytes, validate) for PublicValuesStruct: reads the two
\* words from the front of the buffer; with validate it also requires the
\* re-encoding of what it read to equal the buffer.
abi_decode(bytes, validate) ==
    IF Len(bytes) < 2 * WordLen THEN Err("abi", "buffer overrun")
    ELSE LET fields == <<BeValueUpTo(bytes, 1, WordLen),
                         BeValueUpTo(bytes, WordLen + 1, 2 * WordLen)>>
         IN IF validate /\ abi_encode(fields) # bytes
            THEN Err("abi", "reserialization did not match")
            ELSE Ok(fields)

\* The validate flag the games pass to abi_decode.
DecodeValidate == FALSE

\* GameConfig::get_solidity_context (both games): decode-and-unwrap, then build
\* the context; the proof's bytes are taken last.
get_solidity_context(game, proof, vk) ==
    LET bytes == proof.public_values
        decoded == abi_decode(bytes, DecodeValidate)
        pbytes == ProofBytes(proof)
    IN IF ~IsOk(decoded) THEN Panic("called Result::unwrap() on an Err value")
       ELSE IF IsPanic(pbytes) THEN pbytes
       ELSE IF game = "BlockExecutionGame"
       THEN Ok([block_id |-> to_be_bytes(decoded.val[2]),
                input_hash |-> to_be_bytes(decoded.val[1]),
                vkey |-> bytes32(vk),
                public_values |-> Hex0x(bytes),
                proof |-> Hex0x(pbytes.val)])
       ELSE Ok([first_block_height |-> to_be_bytes(decoded.val[1]),
                last_block_height |-> to_be_bytes(decoded.val[2]),
                vkey |-> bytes32(vk),
                public_values |-> Hex0x(bytes),
                proof |-> Hex0x(pbytes.val)])

\* serde_json::to_string_pretty of a SolidityContext: the fields in declaration
\* order under their camelCase names (#[serde(rename_all = "camelCase")]).
to_string_pretty(game, ctx) ==
    IF game = "BlockExecutionGame"
    THEN << <<"blockId", ctx.block_id>>, <<"inputHash", ctx.input_hash>>,
            <<"vkey", ctx.vkey>>, <<"publicValues", ctx.public_values>>,
            <<"proof", ctx.proof>> >>
    ELSE << <<"firstBlockHeight", ctx.first_block_height>>,
            <<"lastBlockHeight", ctx.last_block_height>>,
            <<"vkey", ctx.vkey>>, <<"publicValues", ctx.public_values>>,
            <<"proof", ctx.proof>> >>

\* ------------------------------------------------------------ file system

\* Output directories a caller may name; contracts/ is the CLI's default.
DefaultOutputPath == "contracts/"
OutputPaths == {"contracts/", "existing/", "blocked/out", "readonly/"}

\* PathBuf::from(env!("CARGO_MANIFEST_DIR")).join(path), for a relative path.
FixturePath(path) == <<"CARGO_MANIFEST_DIR", path>>

\* format!("{}-fixture.json", G::NAME).to_lowercase(), per game.
FileNameOf ==
    [g \in Games |->
        to_lowercase(NAME(g) \o <<"-","f","i","x","t","u","r","e",".","j","s","o","n">>)]

FileName(game) == FileNameOf[game]

FileNames == {FileName(g) : g \in Games}

File(content) == [tag |-> "File", content |-> content]

\* The directories before the process starts: contracts/ does not exist yet,
\* existing/ holds an older decompression fixture, blocked/out lies below a
\* regular file, and readonly/ is a directory that admits no writes.
InitFs ==
    [d \in {FixturePath(p) : p \in OutputPaths} |->
        [state |-> CASE d[2] = "contracts/" -> "absent"
                     [] d[2] = "existing/" -> "dir"
                     [] d[2] = "blocked/out" -> "blocked"
                     [] d[2] = "readonly/" -> "readonly",
         files |-> [n \in FileNames |->
                      IF d[2] = "existing/" /\ n = FileName("DecompressionGame")
                      THEN File(<< <<"vkey", <<"0", "x">> >> >>)
                      ELSE None]]]

\* std::fs::create_dir_all
create_dir_all(files, dir) ==
    IF files[dir].state = "blocked"
    THEN [result |-> Err("io", "Not a directory"), fs |-> files]
    ELSE [result |-> Ok(Unit),
          fs |-> IF files[dir].state = "absent"
                 THEN [files EXCEPT ![dir].state = "dir"]
                 ELSE files]

\* std::fs::write: creates the file or replaces its whole content.
fs_write_keep(files, dir, name, content) ==
    IF files[dir].state # "dir"
    THEN [result |-> Err("io", "Permission denied"), fs |-> files]
    ELSE [result |-> Ok(Unit),
          fs |-> IF files[dir].files[name] = None
                 THEN [files EXCEPT ![dir].files[name] = File(content)]
                 ELSE files]

fs_write(files, dir, name, content) ==
    IF files[dir].state # "dir"
    THEN [result |-> Err("io", "Permission denied"), fs |-> files]
    ELSE [result |-> Ok(Unit),
          fs |-> [files EXCEPT ![dir].files[name] = File(content)]]

\* ------------------------------------------------- GameProver, GameExecutor

\* SP1Stdin::new() followed by write_slice(input): one buffer on the channel.
Stage(input) == <<input>>

\* let (pk, vk) = self.prover.as_ref().setup(G::elf()): the backend derives a
\* pair on every call.  b is the backend's record of what it has been asked.
SetupCached(game, b) ==
    IF b.derived[elf(game)] # None
    THEN [keys |-> b.derived[elf(game)], backend |-> b]
    ELSE [keys |-> BackendSetup(elf(game), b.setups + 1),
          backend |-> [b EXCEPT !.setups = @ + 1,
                                !.derived[elf(game)] = BackendSetup(elf(game), b.setups + 1)]]

Setup(game, b) ==
    [keys |-> BackendSetup(elf(game), b.setups + 1),
     backend |-> [b EXCEPT !.setups = @ + 1,
                           !.derived[elf(game)] = BackendSetup(elf(game), b.setups + 1)]]

\* self.prover.as_ref().prove(&pk, &stdin), configured for the mode: the request
\* carries the proving key, the staged input and the requested kind.
ProofRequestFreshStdin(pk, stdin, mode) ==
    [pk |-> pk, stdin |-> <<>>, kind |-> ConfiguredKind(mode)]

ProofRequest(pk, stdin, mode) ==
    [pk |-> pk, stdin |-> stdin, kind |-> ConfiguredKind(mode)]

\* .run().map_err(|e| Error::FailedToProveProvingGame(e.to_string()))? ; Ok((proof, vk))
ProveOutcomeNoMessage(run, vk) ==
    IF IsOk(run) THEN Ok([proof |-> run.val, vk |-> vk])
    ELSE Err("FailedToProveProvingGame", "proving failed")

ProveOutcome(run, vk) ==
    IF IsOk(run) THEN Ok([proof |-> run.val, vk |-> vk])
    ELSE Err("FailedToProveProvingGame", run.msg)

\* GameProver::verify: .verify(proof, vk).map_err(|e| Error::FailedToVerifyProof(e.to_string()))
VerifyOutcomeSwallow(answer) == Ok(Unit)

VerifyOutcome(answer) ==
    IF IsOk(answer) THEN Ok(Unit) ELSE Err("FailedToVerifyProof", answer.msg)

\* GameExecutor::execute: .run().map_err(|e| Error::FailedToExecuteProvingGame(e.to_string()))? ; Ok(report)
ExecuteOutcomeZeroReport(run) ==
    IF IsOk(run) THEN Ok(run.val)
    ELSE Ok([total_instruction_count |-> 0, total_syscall_count |-> 0,
             touched_memory_addresses |-> 0])

ExecuteOutcome(run) ==
    IF IsOk(run) THEN Ok(run.val) ELSE Err("FailedToExecuteProvingGame", run.msg)

\* GameProver::create_solidity_fixture, on the file system files.
create_solidity_fixture(game, proof, vk, path, files) ==
    LET fixture == get_solidity_context(game, proof, vk)
        fixture_path == FixturePath(path)
        made == create_dir_all(files, fixture_path)
    IN IF IsPanic(fixture) THEN [result |-> fixture, fs |-> files]
       ELSE IF IsErr(made.result)
       THEN [result |-> Err("FailedToCreateSolidityFixture", made.result.msg),
             fs |-> made.fs]
       ELSE LET written == fs_write(made.fs, fixture_path, FileName(game),
                                    to_string_pretty(game, fixture.val))
            IN IF IsErr(written.result)
               THEN [result |-> Panic("failed to write fixture"), fs |-> written.fs]
               ELSE [result |-> Ok(Unit), fs |-> written.fs]

\* The match on mode in main: only plonk and groth16 reach create_solidity_fixture.
ExportsFixtureAlways(mode) == TRUE

ExportsFixture(mode) == mode \in {"plonk", "groth16"}

\* ------------------------------------------------------------------ state

VARIABLES
    proc,          \* the process: "running", "panicked", "exited_ok", "exited_err"
    G,             \* the game the process's GameProver and GameExecutor are bound to
    backendFault,  \* the condition of the backend this process talks to
    backend,       \* how often the backend has been asked for what, and the keys it derived
    phase,         \* where the prove call in progress stands
    call,          \* the harness call in progress, or the last one made
    calls,         \* number of harness calls made, by operation
    held,          \* the (proof, vk) pair prove last returned to the caller, if any
    verdicts,      \* what each verify call was given and returned, with the call's ordinal
    fs,            \* the output directories
    cli            \* the command-line run: its position and arguments

vars == <<proc, G, backendFault, backend, phase, call, calls, held, verdicts, fs, cli>>

NoCall ==
    [op |-> "none", via |-> "-", game |-> "-", fixture |-> "-", input |-> <<>>,
     mode |-> "-", stdin |-> <<>>, pk |-> None, vk |-> None, request |-> None,
     proof |-> None, path |-> "-", at |-> None, result |-> None]

NoCli == [pc |-> "none", command |-> "-", fixture |-> "-", mode |-> "-",
          output_path |-> "-", proof |-> None, vk |-> None, verified |-> FALSE]

\* Proofs a caller may hold that this process did not produce: one saved from an
\* earlier groth16 run of the decompression game, one whose public values carry
\* a trailing byte after the two words, one whose public values are cut short.
SavedProof ==
    [prog |-> elf("DecompressionGame"), kind |-> "groth16", sound |-> TRUE,
     public_values |-> abi_encode(<<3, 5>>), raw |-> <<7, 3, 5>>]
OverlongProof ==
    [prog |-> elf("DecompressionGame"), kind |-> "plonk", sound |-> FALSE,
     public_values |-> abi_encode(<<3, 5>>) \o <<1>>, raw |-> <<5, 3, 5>>]
ShortProof ==
    [prog |-> elf("BlockExecutionGame"), kind |-> "groth16", sound |-> FALSE,
     public_values |-> SubSeq(abi_encode(<<9, 2>>), 1, 2 * WordLen - 1),
     raw |-> <<7, 9, 2>>]
ForeignProofs == {SavedProof, OverlongProof, ShortProof}

\* Verifying keys derived in an earlier run.
KnownVks == {BackendSetup(e, 0).vk : e \in Elfs}

\* The known key of the program other than prog.
OtherVk(prog) == CHOOSE k \in KnownVks : k.prog # prog

\* The pairs a caller exports: what prove returned, and each foreign proof with
\* the known key of its program.
Exportable ==
    held \cup {[proof |-> p, vk |-> BackendSetup(p.prog, 0).vk] : p \in ForeignProofs}

\* The pairs a caller verifies: what prove returned, the saved and the cut-short
\* foreign proof with the known key of their program, and a proof of one program
\* against the key of the other.
Verifiable ==
    held \cup {[proof |-> p, vk |-> BackendSetup(p.prog, 0).vk] : p \in {SavedProof, ShortProof}}
         \cup {[proof |-> h.proof, vk |-> OtherVk(h.proof.prog)] :
                        h \in held \cup {[proof |-> SavedProof, vk |-> None]}}

Init ==
    /\ proc = "running"
    /\ G \in Games
    /\ backendFault \in BackendFaults
    /\ backend = [setups |-> 0, proofs |-> 0, executions |-> 0, verifications |-> 0,
                  derived |-> [e \in Elfs |-> None]]
    /\ phase = "Idle"
    /\ call = NoCall
    /\ calls = [prove |-> 0, execute |-> 0, verify |-> 0, export |-> 0]
    /\ held = {}
    /\ verdicts = {}
    /\ fs = InitFs
    /\ cli = NoCli

Total(n) == n.prove + n.execute + n.verify + n.export

\* A library caller may make a call: nothing is in progress and no CLI run owns
\* the process.
MayCall ==
    /\ proc = "running"
    /\ phase = "Idle"
    /\ cli.pc = "none"
    /\ Total(calls) < MaxCalls

\* ------------------------------------------------------- GameProver::prove

\* prove, line 63-64: the call begins and stages its input.
StartProve(via, game, fixture, input, mode) ==
    /\ call' = [NoCall EXCEPT !.op = "prove", !.via = via, !.game = game,
                              !.fixture = fixture, !.input = input, !.mode = mode,
                              !.stdin = Stage(input), !.at = backend]
    /\ phase' = "InputStaged"
    /\ calls' = [calls EXCEPT !.prove = @ + 1]

Prove(game, input, mode) ==
    /\ MayCall
    /\ StartProve("prove", game, "-", input, mode)
    /\ UNCHANGED <<proc, G, backendFault, backend, held, verdicts, fs, cli>>

\* prove_fixture: get_fixture_input, then prove.
ProveFixtureFirst(game, fixture, mode) ==
    /\ MayCall
    /\ StartProve("prove_fixture", game, fixture, get_fixture_input(game, "fixture_a"), mode)
    /\ UNCHANGED <<proc, G, backendFault, backend, held, verdicts, fs, cli>>

ProveFixture(game, fixture, mode) ==
    /\ MayCall
    /\ StartProve("prove_fixture", game, fixture, get_fixture_input(game, fixture), mode)
    /\ UNCHANGED <<proc, G, backendFault, backend, held, verdicts, fs, cli>>

\* defaults::prove_fixture: a fresh default prover, the default mode.
DefaultsProveFixture(game, fixture) ==
    /\ MayCall
    /\ StartProve("defaults::prove_fixture", game, fixture,
                  get_fixture_input(game, fixture), DefaultProvingMode)
    /\ UNCHANGED <<proc, G, backendFault, backend, held, verdicts, fs, cli>>

\* prove, line 67: key setup.
ProveSetup ==
    /\ proc = "running"
    /\ phase = "InputStaged"
    /\ LET s == Setup(call.game, backend)
       IN /\ backend' = s.backend
          /\ call' = [call EXCEPT !.pk = s.keys.pk, !.vk = s.keys.vk]
    /\ phase' = "KeysGenerated"
    /\ UNCHANGED <<proc, G, backendFault, calls, held, verdicts, fs, cli>>

\* prove, lines 71-76: the proof request is built from the key and the staged
\* input and configured for the mode.
ProveRequest ==
    /\ proc = "running"
    /\ phase = "KeysGenerated"
    /\ call' = [call EXCEPT !.request = ProofRequest(call.pk, call.stdin, call.mode)]
    /\ phase' = "Proving"
    /\ UNCHANGED <<proc, G, backendFault, backend, calls, held, verdicts, fs, cli>>

\* prove, lines 77-83: the request runs on the backend; its failure becomes the
\* proving error, its proof is paired with the verifying key.
ProveRun ==
    /\ proc = "running"
    /\ phase = "Proving"
    /\ LET run == BackendProve(call.request.pk, call.request.stdin,
                               call.request.kind, backendFault)
           outcome == ProveOutcome(run, call.vk)
       IN /\ backend' = [backend EXCEPT !.proofs = @ + 1]
          /\ call' = [call EXCEPT !.result = outcome]
          /\ phase' = IF IsOk(outcome) THEN "Proved" ELSE "Failed"
    /\ UNCHANGED <<proc, G, backendFault, calls, held, verdicts, fs, cli>>

\* The call returns to its caller.  In main the result meets the ? operator:
\* an error ends the process, a proof moves the run on to verification.
ProveReturn ==
    /\ proc = "running"
    /\ phase \in {"Proved", "Failed"}
    /\ phase' = "Idle"
    /\ held' = IF IsOk(call.result) THEN {call.result.val} ELSE held
    /\ cli' = IF cli.pc = "prove"
              THEN (IF IsOk(call.result)
                    THEN [cli EXCEPT !.pc = "verify", !.proof = call.result.val.proof,
                                     !.vk = call.result.val.vk]
                    ELSE [cli EXCEPT !.pc = "done"])
              ELSE cli
    /\ proc' = IF cli.pc = "prove" /\ ~IsOk(call.result) THEN "exited_err" ELSE proc
    /\ UNCHANGED <<G, backendFault, backend, call, calls, verdicts, fs>>

\* ---------------------------------------------------- GameExecutor::execute

\* execute: stage the input, run the program once in trace-only mode, map a
\* backend failure to the execution error.
DoExecute(via, game, fixture, input) ==
    LET stdin == Stage(input)
        run == BackendExecute(elf(game), stdin)
    IN /\ backend' = [backend EXCEPT !.executions = @ + 1]
       /\ call' = [NoCall EXCEPT !.op = "execute", !.via = via, !.game = game,
                                 !.fixture = fixture, !.input = input, !.stdin = stdin,
                                 !.at = backend, !.result = ExecuteOutcome(run)]
       /\ calls' = [calls EXCEPT !.execute = @ + 1]

Execute(game, input) ==
    /\ MayCall
    /\ DoExecute("execute", game, "-", input)
    /\ UNCHANGED <<proc, G, backendFault, phase, held, verdicts, fs, cli>>

\* execute_fixture: get_fixture_input, then execute.
ExecuteFixture(game, fixture) ==
    /\ MayCall
    /\ DoExecute("execute_fixture", game, fixture, get_fixture_input(game, fixture))
    /\ UNCHANGED <<proc, G, backendFault, phase, held, verdicts, fs, cli>>

\* defaults::execute_fixture: a fresh default executor, then execute_fixture.
DefaultsExecuteFixture(game, fixture) ==
    /\ MayCall
    /\ DoExecute("defaults::execute_fixture", game, fixture,
                 get_fixture_input(game, fixture))
    /\ UNCHANGED <<proc, G, backendFault, phase, held, verdicts, fs, cli>>

\* -------------------------------------------------------- GameProver::verify

DoVerify(proof, vk) ==
    LET answer == BackendVerify(proof, vk, backendFault)
        outcome == VerifyOutcome(answer)
    IN /\ backend' = [backend EXCEPT !.verifications = @ + 1]
       /\ call' = [NoCall EXCEPT !.op = "verify", !.proof = proof, !.vk = vk,
                                 !.at = backend, !.result = outcome]
       /\ calls' = [calls EXCEPT !.verify = @ + 1]
       /\ verdicts' = verdicts \cup {[proof |-> proof, vk |-> vk, result |-> outcome,
                                      seq |-> Total(calls) + 1]}

Verify(proof, vk) ==
    /\ MayCall
    /\ DoVerify(proof, vk)
    /\ UNCHANGED <<proc, G, backendFault, phase, held, fs, cli>>

\* --------------------------------------- GameProver::create_solidity_fixture

\* A panic inside the call ends the process.
CreateSolidityFixture(game, proof, vk, path) ==
    /\ MayCall
    /\ LET done == create_solidity_fixture(game, proof, vk, path, fs)
       IN /\ fs' = done.fs
          /\ call' = [NoCall EXCEPT !.op = "create_solidity_fixture", !.game = game,
                                    !.proof = proof, !.vk = vk, !.path = path,
                                    !.at = backend, !.result = done.result]
          /\ proc' = IF IsPanic(done.result) THEN "panicked" ELSE proc
    /\ calls' = [calls EXCEPT !.export = @ + 1]
    /\ UNCHANGED <<G, backendFault, backend, phase, held, verdicts, cli>>

\* ------------------------------------------------- decompression-game main

NoOutputPath == "<none>"

\* output_path.unwrap_or("contracts/".into())
OutputPathOr(output_path) ==
    IF output_path = NoOutputPath THEN DefaultOutputPath ELSE output_path

\* Command::ExecuteFixture: defaults::execute_fixture(fixture)?, then the cycle
\* count is logged and main returns Ok.
CliExecuteFixture(fixture) ==
    /\ MayCall
    /\ G = "DecompressionGame"
    /\ Total(calls) = 0
    /\ DoExecute("cli", "DecompressionGame", fixture,
                 get_fixture_input("DecompressionGame", fixture))
    /\ cli' = [NoCli EXCEPT !.pc = "done", !.command = "execute_fixture",
                            !.fixture = fixture]
    /\ proc' = IF IsOk(ExecuteOutcome(BackendExecute(elf("DecompressionGame"),
                         Stage(get_fixture_input("DecompressionGame", fixture)))))
               THEN "exited_ok" ELSE "exited_err"
    /\ UNCHANGED <<G, backendFault, phase, held, verdicts, fs>>

\* Command::ProveFixture, lines 87-90: prover.prove_fixture(fixture, mode.into()).
CliProveFixture(fixture, mode, output_path) ==
    /\ MayCall
    /\ G = "DecompressionGame"
    /\ Total(calls) = 0
    /\ StartProve("cli", "DecompressionGame", fixture,
                  get_fixture_input("DecompressionGame", fixture), CliModeInto(mode))
    /\ cli' = [NoCli EXCEPT !.pc = "prove", !.command = "prove_fixture",
                            !.fixture = fixture, !.mode = mode,
                            !.output_path = output_path]
    /\ UNCHANGED <<proc, G, backendFault, backend, held, verdicts, fs>>

\* Lines 92-94: prover.verify(&proof, &vk).expect("failed to verify proof").
CliVerify ==
    /\ proc = "running"
    /\ cli.pc = "verify"
    /\ phase = "Idle"
    /\ DoVerify(cli.proof, cli.vk)
    /\ LET ok == IsOk(VerifyOutcome(BackendVerify(cli.proof, cli.vk, backendFault)))
       IN /\ cli' = [cli EXCEPT !.pc = IF ok THEN "export" ELSE "done", !.verified = ok]
          /\ proc' = IF ok THEN proc ELSE "panicked"
    /\ UNCHANGED <<G, backendFault, phase, held, fs>>

\* Lines 96-107: the fixture is exported for the wrapping modes, then main
\* returns; an export error leaves through the ? operator.
CliExport ==
    /\ proc = "running"
    /\ cli.pc = "export"
    /\ LET done == IF ExportsFixture(cli.mode)
                   THEN create_solidity_fixture("DecompressionGame", cli.proof, cli.vk,
                                                OutputPathOr(cli.output_path), fs)
                   ELSE [result |-> Ok(Unit), fs |-> fs]
       IN /\ fs' = done.fs
          /\ call' = IF ExportsFixture(cli.mode)
                     THEN [NoCall EXCEPT !.op = "create_solidity_fixture",
                                         !.game = "DecompressionGame",
                                         !.proof = cli.proof, !.vk = cli.vk,
                                         !.path = OutputPathOr(cli.output_path),
                                         !.at = backend, !.result = done.result]
                     ELSE call
          /\ proc' = CASE IsPanic(done.result) -> "panicked"
                       [] IsErr(done.result) -> "exited_err"
                       [] OTHER -> "exited_ok"
    /\ cli' = [cli EXCEPT !.pc = "done"]
    /\ calls' = IF ExportsFixture(cli.mode) THEN [calls EXCEPT !.export = @ + 1] ELSE calls
    /\ UNCHANGED <<G, backendFault, backend, phase, held, verdicts>>

\* ----------------------------------------------------------- specification

Next ==
    \/ MayCall /\ \E i \in RawInputs(G) : \E m \in ProvingModes : Prove(G, i, m)
    \/ MayCall /\ \E f \in Fixtures : \E m \in ProvingModes : ProveFixture(G, f, m)
    \/ MayCall /\ \E f \in Fixtures : DefaultsProveFixture(G, f)
    \/ ProveSetup
    \/ ProveRequest
    \/ ProveRun
    \/ ProveReturn
    \/ MayCall /\ \E i \in RawInputs(G) : Execute(G, i)
    \/ MayCall /\ \E f \in Fixtures : ExecuteFixture(G, f)
    \/ MayCall /\ \E f \in Fixtures : DefaultsExecuteFixture(G, f)
    \/ MayCall /\ \E h \in Verifiable : Verify(h.proof, h.vk)
    \/ MayCall /\ \E h \in Exportable : \E d \in OutputPaths :
          CreateSolidityFixture(G, h.proof, h.vk, d)
    \/ MayCall /\ \E f \in Fixtures : CliExecuteFixture(f)
    \/ MayCall /\ \E f \in Fixtures : \E m \in CliModes :
          \E d \in OutputPaths \cup {NoOutputPath} : CliProveFixture(f, m, d)
    \/ CliVerify
    \/ CliExport

Spec == Init /\ [][Next]_vars

\* ------------------------------------------------------------------ claims

\* C1: every prove call walks Idle -> InputStaged -> KeysGenerated -> Proving ->
\* Proved | Failed in that order: the input is staged before any backend call,
\* setup then runs exactly once for the game's program, the proof request carries
\* the proving key of that same setup and the staged input, and a proof is
\* returned with the verifying key of that setup.  Every prove call causes one
\* setup call, so n calls cause n, and no earlier key pair is used again.
C1_ProveTraversal ==
    /\ [][/\ phase' # phase =>
                <<phase, phase'>> \in
                   {<<"Idle", "InputStaged">>, <<"InputStaged", "KeysGenerated">>,
                    <<"KeysGenerated", "Proving">>, <<"Proving", "Proved">>,
                    <<"Proving", "Failed">>, <<"Proved", "Idle">>, <<"Failed", "Idle">>}
          /\ phase' = "InputStaged" /\ phase # "InputStaged" =>
                /\ call'.stdin = <<call'.input>>
                /\ backend' = backend
                /\ call'.at = backend
          /\ phase' = "KeysGenerated" /\ phase # "KeysGenerated" =>
                /\ backend'.setups = backend.setups + 1
                /\ backend'.proofs = backend.proofs
                /\ call'.pk = [prog |-> elf(call.game), gen |-> backend'.setups]
                /\ call'.vk = [prog |-> elf(call.game), gen |-> backend'.setups]
          /\ phase' = "Proving" /\ phase # "Proving" =>
                /\ backend' = backend
                /\ call'.request.pk = call.pk
                /\ call'.request.stdin = <<call.input>>
          /\ phase' \in {"Proved", "Failed"} /\ phase = "Proving" =>
                /\ backend'.setups = call.at.setups + 1
                /\ backend'.proofs = call.at.proofs + 1
                /\ call.request.pk.gen = backend'.setups
          /\ phase' = "Proved" /\ phase = "Proving" =>
                /\ call'.result.val.vk = call.vk
                /\ call'.result.val.vk.gen = call.at.setups + 1
                /\ call'.result.val.proof.prog = call.request.pk.prog
         ]_vars
    /\ [](phase \in {"Idle", "Proved", "Failed"} => backend.setups = calls.prove)

\* A second prove call has returned a proof with the key of the second setup.
C1_Witness ==
    /\ phase = "Proved"
    /\ calls.prove = 2
    /\ backend.setups = 2
    /\ call.result.val.vk.gen = 2
    /\ call.request.pk.gen = 2

C3_ExportErrorsReturned ==
    (/\ call.op = "create_solidity_fixture"
     /\ Len(call.proof.public_values) = 2 * WordLen
     /\ IsOk(get_solidity_context(call.game, call.proof, call.vk))
     /\ fs[FixturePath(call.path)].state \in {"blocked", "readonly"})
    => /\ IsErr(call.result)
       /\ call.result.kind = "FailedToCreateSolidityFixture"
       /\ proc # "panicked"

\* C4: when the backend's proof request fails, prove returns the proving error
\* with the backend's message, no proof and no key, and the request has been
\* issued once in that call.
C4_ProveFailure ==
    phase \in {"Proved", "Failed"} =>
       LET run == BackendProve(call.request.pk, call.request.stdin,
                               call.request.kind, backendFault)
       IN /\ IsErr(run) <=> phase = "Failed"
          /\ phase = "Failed" =>
                /\ call.result = [tag |-> "Err", kind |-> "FailedToProveProvingGame",
                                  msg |-> run.msg]
                /\ backend.proofs = call.at.proofs + 1
                /\ backend.setups = call.at.setups + 1

\* A prove call on truncated input has failed with the guest's message.
C4_Witness ==
    /\ phase = "Failed"
    /\ call.input = TruncatedInput
    /\ call.result.msg = "guest: invalid input encoding"
    /\ backend.proofs = call.at.proofs + 1

\* C5: get_solidity_context decodes strictly: a public-values buffer that is not
\* a well-formed encoding of the layout (not exactly two words long) makes it
\* fail loudly, and nothing is exported from it.
C5_StrictDecoding ==
    (/\ call.op = "create_solidity_fixture"
     /\ Len(call.proof.public_values) # 2 * WordLen)
    => /\ IsPanic(call.result)
       /\ IsPanic(get_solidity_context(call.game, call.proof, call.vk))

\* C6: the prove_fixture command runs prove, verify, export in that order.  The
\* output directories change only in the export step, only for plonk or groth16,
\* and only once verify has returned success for the proof and key in hand; a
\* run in mode core ends without calling the export, and a run whose proving or
\* verification failed ends with the directories as they were.
C6_CliOrder ==
    /\ [][cli'.command = "prove_fixture" =>
            /\ cli'.pc # cli.pc =>
                  <<cli.pc, cli'.pc>> \in
                     {<<"none", "prove">>, <<"prove", "verify">>, <<"prove", "done">>,
                      <<"verify", "export">>, <<"verify", "done">>, <<"export", "done">>}
            /\ cli'.pc = "verify" /\ cli.pc = "prove" => IsOk(call.result)
            /\ fs' # fs =>
                  /\ cli.pc = "export"
                  /\ cli.mode \in {"plonk", "groth16"}
                  /\ \E v \in verdicts :
                        /\ v.proof = cli.proof /\ v.vk = cli.vk /\ IsOk(v.result)
            /\ call'.op = "create_solidity_fixture" =>
                  /\ cli.mode \in {"plonk", "groth16"}
                  /\ cli.verified
         ]_vars
    /\ [](cli.command = "prove_fixture" /\ cli.pc = "done" =>
            /\ cli.mode = "core" /\ cli.verified =>
                  /\ proc = "exited_ok"
                  /\ call.op = "verify"
                  /\ fs = InitFs
            /\ ~cli.verified =>
                  /\ fs = InitFs
                  /\ proc \in {"exited_err", "panicked"})

\* A plonk run has verified its proof and then written the fixture.
C6_Witness ==
    /\ cli.command = "prove_fixture"
    /\ cli.pc = "done"
    /\ cli.mode = "plonk"
    /\ cli.verified
    /\ proc = "exited_ok"
    /\ fs # InitFs

\* C7: prove asks the backend for the kind its mode names (Core: the base proof,
\* Groth16: groth16 wrapping, Plonk: plonk wrapping) and a returned proof is of
\* that kind; the default mode is Core, which defaults::prove_fixture uses; the
\* CLI's mode reaches prove as the library mode of the same name.
C7_ModeKinds ==
    /\ DefaultProvingMode = "Core"
    /\ phase \in {"Proving", "Proved", "Failed"} =>
          /\ call.mode = "Core" => call.request.kind = "core"
          /\ call.mode = "Groth16" => call.request.kind = "groth16"
          /\ call.mode = "Plonk" => call.request.kind = "plonk"
    /\ phase = "Proved" => call.result.val.proof.kind = call.request.kind
    /\ call.via = "defaults::prove_fixture" => call.mode = "Core"
    /\ call.via = "cli" /\ call.op = "prove" =>
          /\ cli.mode = "core" <=> call.mode = "Core"
          /\ cli.mode = "groth16" <=> call.mode = "Groth16"
          /\ cli.mode = "plonk" <=> call.mode = "Plonk"

\* A Groth16 prove call has returned a groth16 proof.
C7_Witness ==
    /\ phase = "Proved"
    /\ call.mode = "Groth16"
    /\ call.request.kind = "groth16"
    /\ call.result.val.proof.kind = "groth16"

\* C8: when the backend reports a fault for the run, execute returns the
\* execution error with the backend's message and no report; every execute call
\* asks the backend to execute exactly once and never for setup or a proof.
C8_ExecuteFault ==
    call.op = "execute" =>
       LET run == BackendExecute(elf(call.game), <<call.input>>)
       IN /\ IsErr(run) =>
                call.result = [tag |-> "Err", kind |-> "FailedToExecuteProvingGame",
                               msg |-> run.msg]
          /\ IsOk(call.result) => IsOk(run) /\ call.result.val.total_instruction_count > 0
          /\ backend.executions = call.at.executions + 1
          /\ backend.setups = call.at.setups
          /\ backend.proofs = call.at.proofs
          /\ backend.verifications = call.at.verifications

\* An execute call on truncated input has failed with the guest's message.
C8_Witness ==
    /\ call.op = "execute"
    /\ call.input = TruncatedInput
    /\ IsErr(call.result)
    /\ call.result.msg = "guest: invalid input encoding"

\* C9: verify returns success exactly when the backend accepts the pair and
\* otherwise the verification error with the backend's message; it asks the
\* backend to verify once and for nothing else; any two verify calls on the same
\* pair returned the same result, whatever was called between them.
C9_VerifyDelegates ==
    /\ \A v \in verdicts :
          LET answer == BackendVerify(v.proof, v.vk, backendFault)
          IN /\ IsOk(v.result) <=> IsOk(answer)
             /\ IsErr(answer) =>
                   v.result = [tag |-> "Err", kind |-> "FailedToVerifyProof",
                               msg |-> answer.msg]
    /\ \A v, w \in verdicts :
          v.proof = w.proof /\ v.vk = w.vk => v.result = w.result
    /\ call.op = "verify" =>
          /\ backend.verifications = call.at.verifications + 1
          /\ backend.setups = call.at.setups
          /\ backend.proofs = call.at.proofs
          /\ backend.executions = call.at.executions

\* The same pair has been verified twice with another call in between, and was
\* rejected both times.
C9_Witness ==
    \E v, w \in verdicts :
        /\ v.proof = w.proof /\ v.vk = w.vk
        /\ w.seq = v.seq + 2
        /\ IsErr(v.result) /\ IsErr(w.result)
        /\ v.result.msg = "verifier: invalid proof"

\* C10: after a successful create_solidity_fixture the output directory exists
\* and its file <NAME lowercased>-fixture.json holds exactly the serialization
\* of get_solidity_context(proof, vk), whatever the file held before; a second
\* call with the same arguments therefore leaves the same content.
C10_FixtureWritten ==
    (call.op = "create_solidity_fixture" /\ IsOk(call.result)) =>
       LET dir == fs[<<"CARGO_MANIFEST_DIR", call.path>>]
           name == IF call.game = "DecompressionGame"
                   THEN <<"d","e","c","o","m","p","r","e","s","s","i","o","n",
                          "-","f","i","x","t","u","r","e",".","j","s","o","n">>
                   ELSE <<"b","l","o","c","k","_","e","x","e","c","u","t","i","o","n",
                          "-","f","i","x","t","u","r","e",".","j","s","o","n">>
       IN /\ dir.state = "dir"
          /\ dir.files[name] =
                [tag |-> "File",
                 content |-> to_string_pretty(call.game,
                                get_solidity_context(call.game, call.proof, call.vk).val)]

\* A second export into existing/, which held an older decompression fixture,
\* has succeeded.
C10_Witness ==
    /\ call.op = "create_solidity_fixture"
    /\ IsOk(call.result)
    /\ call.game = "DecompressionGame"
    /\ call.path = "existing/"
    /\ calls.export = 2
    /\ \E n \in FileNames :
          /\ InitFs[FixturePath("existing/")].files[n] # None
          /\ fs[FixturePath("existing/")].files[n] # InitFs[FixturePath("existing/")].files[n]

\* C11: a fixture operation is its raw-input operation applied to
\* get_fixture_input(fixture).  Whatever a raw call on an input stages, asks of
\* the backend and returns, a fixture call stages, asks and returns for the
\* fixture's input, from the same backend state and in the same mode: execute
\* runs the program once on the staged input and returns the mapped outcome;
\* prove derives the keys, then requests the proof for the staged input in the
\* mode's kind, and returns the mapped outcome with the derived verifying key.
C11_FixtureEquivalence ==
    LET input == IF call.via \in {"prove_fixture", "execute_fixture"}
                 THEN get_fixture_input(call.game, call.fixture)
                 ELSE call.input
        s == Setup(call.game, call.at)
        request == ProofRequest(s.keys.pk, Stage(input), call.mode)
        run == BackendProve(request.pk, request.stdin, request.kind, backendFault)
    IN /\ (call.op = "execute" /\ call.via \in {"execute", "execute_fixture"}) =>
            /\ call.stdin = Stage(input)
            /\ call.result = ExecuteOutcome(BackendExecute(elf(call.game), Stage(input)))
            /\ backend = [call.at EXCEPT !.executions = @ + 1]
       /\ (call.op = "prove" /\ call.via \in {"prove", "prove_fixture"}) =>
            /\ call.stdin = Stage(input)
            /\ phase = "InputStaged" => backend = call.at
            /\ phase \in {"KeysGenerated", "Proving"} =>
                  /\ backend = s.backend
                  /\ call.vk = s.keys.vk
            /\ phase = "Proving" => call.request = request
            /\ phase \in {"Proved", "Failed", "Idle"} =>
                  /\ backend = [s.backend EXCEPT !.proofs = @ + 1]
                  /\ call.result = ProveOutcome(run, s.keys.vk)

\* After a raw execute and a raw prove, a prove_fixture call on the second
\* fixture has returned a wrapped proof.
C11_Witness ==
    /\ call.op = "prove"
    /\ call.via = "prove_fixture"
    /\ call.fixture = "fixture_b"
    /\ call.mode = "Groth16"
    /\ phase = "Proved"
    /\ IsOk(call.result)
    /\ calls.execute = 1
    /\ calls.prove = 2

====
